---- MODULE Spec2Model ----
(***************************************************************************)
(* A model of synu (src/synu.py): a command line tool that snapshots a     *)
(* project directory into a zip archive, copies the archive to an external *)
(* (USB) path, appends to a history log there, and restores the latest or  *)
(* a named archive into the project directory.                             *)
(*                                                                         *)
(* The whole persistent state of the program is the file system, so the    *)
(* model has one variable for it.  A Python string is a tuple of one       *)
(* character strings, so that `in`, sorted() and the f-string that builds  *)
(* the snapshot name are computed character by character.  A path string   *)
(* is kept split at its "/": "/v/" is << "", "v", "" >>, "." is << "." >>  *)
(* and "" is << "" >>, each part a string.  The keys of the file system    *)
(* are resolved paths: the parts left once the kernel has dropped "" and   *)
(* "." and followed "..".                                                  *)
(*                                                                         *)
(* Scope.  Commands run in the project directory with the default          *)
(* --current ".".  The external paths lie outside the project directories. *)
(* An operating system error ends a backup between two of its file system  *)
(* operations, never inside one.  Names keep their kind: no archive entry   *)
(* names a file where the target holds a directory.                        *)
(***************************************************************************)
EXTENDS Integers, Sequences, FiniteSets, TLC

VARIABLES
    fs,     \* the file system: [resolved path -> node]
    clock,  \* the wall clock, in seconds (datetime.now())
    last,   \* the most recent invocation: its command, its --path, its outcome
    procs   \* the concurrent backup invocations: position and locals of each

vars == <<fs, clock, last, procs>>

-----------------------------------------------------------------------------
(* Bounds of the model.                                                    *)

\* the clock reading in the initial state
ClockStart == 9
\* the clock is not advanced past this reading
MaxClock == 10
\* no backup starts once the history logs hold this many entries in all
MaxHistory == 2

-----------------------------------------------------------------------------
(* Strings.                                                                *)

\* The characters the model's strings use, in code point order.
Alphabet ==
    << ".", "/", "0", "1", "2", "3", "4", "5", "6", "7", "8", "9", "_",
       "a", "b", "c", "d", "e", "f", "g", "h", "i", "j", "k", "l", "m",
       "n", "o", "p", "q", "r", "s", "t", "u", "v", "w", "x", "y", "z" >>

Ord(c) == CHOOSE i \in 1..Len(Alphabet) : Alphabet[i] = c

Digits == << "0", "1", "2", "3", "4", "5", "6", "7", "8", "9" >>

\* str.__lt__: lexicographic order by code point, a proper prefix first.
RECURSIVE StrLess(_, _)
StrLess(s, t) ==
    IF t = << >> THEN FALSE
    ELSE IF s = << >> THEN TRUE
    ELSE IF Head(s) = Head(t) THEN StrLess(Tail(s), Tail(t))
    ELSE Ord(Head(s)) < Ord(Head(t))

\* `sub in s` of two strings.
Contains(s, sub) ==
    \E i \in 1..(Len(s) - Len(sub) + 1) : SubSeq(s, i, i + Len(sub) - 1) = sub

\* sep.join(parts)
RECURSIVE JoinStr(_, _)
JoinStr(parts, sep) ==
    IF parts = << >> THEN << >>
    ELSE IF Len(parts) = 1 THEN parts[1]
    ELSE parts[1] \o sep \o JoinStr(Tail(parts), sep)

\* Python's None, and an optional value that is not None.
None == [some |-> FALSE, v |-> << >>]
Some(v) == [some |-> TRUE, v |-> v]

-----------------------------------------------------------------------------
(* Program constants.                                                      *)

CONFIG_FOLDER == << ".", "s", "y", "n", "c" >>
CONFIG_FILE == << "c", "o", "n", "f", "i", "g", ".", "j", "s", "o", "n" >>
SNAPSHOTS_FOLDER == << "s", "n", "a", "p", "s", "h", "o", "t", "s" >>
HISTORY_FILE == << "h", "i", "s", "t", "o", "r", "y", ".", "j", "s", "o", "n" >>

Slash == << "/" >>
Dot == << "." >>
DotDot == << ".", "." >>
Empty == << >>

-----------------------------------------------------------------------------
(* Paths.                                                                  *)

\* The path string "".
EmptyPath == << Empty >>

\* The characters of a path string.
Text(p) == JoinStr(p, Slash)

\* os.path.isabs(p): the string starts with "/".
isabs(p) == Len(p) > 1 /\ p[1] = Empty

\* os.path.join(a, name), for a name that holds no "/": the name follows a
\* directly when a is "" or ends with "/", and a "/" otherwise.
join(a, name) ==
    IF a[Len(a)] = Empty THEN [a EXCEPT ![Len(a)] = name] ELSE Append(a, name)

\* The parts left of `parts`, resolved from the resolved path `base`.
RECURSIVE Normalize(_, _)
Normalize(base, parts) ==
    IF parts = << >> THEN base
    ELSE LET h == Head(parts) IN
         IF h = Empty \/ h = Dot THEN Normalize(base, Tail(parts))
         ELSE IF h = DotDot
              THEN Normalize(IF base = << >> THEN base
                             ELSE SubSeq(base, 1, Len(base) - 1), Tail(parts))
         ELSE Normalize(Append(base, h), Tail(parts))

\* The file system key of an absolute path string: the kernel's resolution.
Resolve(p) == Normalize(<< >>, p)

\* The absolute path string of a resolved path.
PathStr(k) == IF k = << >> THEN << Empty, Empty >> ELSE << Empty >> \o k

\* os.path.abspath(p) in a process whose working directory is cwd.
abspath(cwd, p) == PathStr(Normalize(IF isabs(p) THEN << >> ELSE Resolve(cwd), p))

\* os.path.basename(p)
basename(p) == p[Len(p)]

\* os.path.dirname(p)
dirname(p) ==
    LET head == SubSeq(p, 1, Len(p) - 1)
    IN  IF head = EmptyPath THEN << Empty, Empty >>
        ELSE IF head = << >> THEN EmptyPath
        ELSE head

\* os.path.relpath(p, start), for p at or below start.
relpath(p, start) ==
    LET rest == SubSeq(Resolve(p), Len(Resolve(start)) + 1, Len(Resolve(p)))
    IN  IF rest = << >> THEN << Dot >> ELSE rest

-----------------------------------------------------------------------------
(* The file system.                                                        *)

Dir == [kind |-> "dir", data |-> << >>]
File(d) == [kind |-> "file", data |-> d]

\* os.path.exists(p)
exists(f, p) == Resolve(p) \in DOMAIN f

IsPrefix(k, q) == Len(k) <= Len(q) /\ SubSeq(q, 1, Len(k)) = k

\* os.makedirs(p, exist_ok=True): p and every missing ancestor of it.
makedirs(f, p) ==
    LET k == Resolve(p)
    IN  f @@ [q \in { SubSeq(k, 1, n) : n \in 0..Len(k) } |-> Dir]

\* open(p, 'w') ... write: the file is created or truncated, then written.
write(f, p, d) == (Resolve(p) :> File(d)) @@ f

\* open(p) ... read
read(f, p) == f[Resolve(p)].data

\* os.listdir(p): the names of the entries of directory p.
listdir(f, p) ==
    LET k == Resolve(p)
    IN  { q[Len(q)] : q \in { r \in DOMAIN f : Len(r) = Len(k) + 1 /\ IsPrefix(k, r) } }

\* The roots os.walk(top) visits: top and every directory below it, each as
\* the path string os.walk builds by joining names onto top.
walk(f, top) ==
    LET k == Resolve(top)
    IN  { top \o SubSeq(r, Len(k) + 1, Len(r)) :
            r \in { q \in DOMAIN f : IsPrefix(k, q) /\ f[q].kind = "dir" } }

\* The `files` os.walk lists for a root.
walk_files(f, root) == { n \in listdir(f, root) : f[Resolve(join(root, n))].kind = "file" }

\* os.path.getsize(p)
getsize(f, p) == Len(read(f, p))

-----------------------------------------------------------------------------
(* Archives.  An archive is the set of its entries, each a name (a path    *)
(* string) and bytes.                                                      *)

\* The archive backup writes, lines 85-99: the zip of the tree under
\* `current`.
createSnapshot(f, current) ==
    LET roots == { root \in walk(f, current) : ~ Contains(Text(root), CONFIG_FOLDER) }
        dirs == { [name |-> Append(relpath(root, current), Empty), data |-> << >>] :
                      root \in { r \in roots : relpath(r, current) # << Dot >> } }
        entry(root, file) ==
            LET abs_path == join(root, file)
                rel_path == relpath(abs_path, current)
            IN  IF getsize(f, abs_path) = 0
                THEN [name |-> rel_path, data |-> << >>]
                ELSE [name |-> rel_path, data |-> read(f, abs_path)]
        files == UNION { { entry(root, file) : file \in walk_files(f, root) } :
                             root \in roots }
    IN  dirs \cup files

\* ZipInfo.is_dir(): the name ends with "/".
is_dir(entry) == Len(entry.name) > 1 /\ entry.name[Len(entry.name)] = Empty

\* Where ZipFile.extract puts an entry: the name's "", "." and ".." parts
\* are dropped and the rest is joined onto the target directory.
extract_target(entry, target) ==
    Resolve(target)
        \o SelectSeq(entry.name, LAMBDA s : s # Empty /\ s # Dot /\ s # DotDot)

\* ZipFile.extractall(target): directories are created when missing, files
\* are created or overwritten, and so is every missing ancestor.
extractall(f, archive, target) ==
    LET made == { extract_target(e, target) : e \in { x \in archive : is_dir(x) } }
        written == { extract_target(e, target) : e \in { x \in archive : ~ is_dir(x) } }
        parents == UNION { { SubSeq(k, 1, n) : n \in 0..(Len(k) - 1) } :
                               k \in made \cup written }
        data(k) == (CHOOSE e \in archive : ~ is_dir(e) /\ extract_target(e, target) = k).data
    IN  [q \in written |-> File(data(q))] @@ f @@ [q \in made \cup parents |-> Dir]

-----------------------------------------------------------------------------
(* The config store.                                                       *)

config_path(project_dir) == join(join(project_dir, CONFIG_FOLDER), CONFIG_FILE)

get_config(f, project_dir) ==
    IF exists(f, config_path(project_dir))
    THEN Some(read(f, config_path(project_dir)))
    ELSE None

save_config(f, project_dir, config) ==
    write(makedirs(f, join(project_dir, CONFIG_FOLDER)), config_path(project_dir), config)

\* The truth value of an optional string: None and "" are false.
Truthy(opt) == opt.some /\ opt.v # EmptyPath

\* A faulty get_usb_path that returns the path it is given and does not
\* save it.
get_usb_path_unsaved(f, cwd, current, provided_path) ==
    LET config == get_config(f, current) IN
    IF ~ config.some
    THEN [fs |-> f, err |-> "NotInitialized", usb_path |-> EmptyPath]
    ELSE IF Truthy(provided_path)
    THEN [fs |-> f, err |-> "", usb_path |-> abspath(cwd, provided_path.v)]
    ELSE IF config.v.usb_path = EmptyPath
    THEN [fs |-> f, err |-> "NoExternalPathConfigured", usb_path |-> EmptyPath]
    ELSE [fs |-> f, err |-> "", usb_path |-> config.v.usb_path]

\* get_usb_path(current, provided_path), in a process with working
\* directory cwd.  Returns the file system it leaves, the ClickException it
\* raises ("" when none) and the path it returns.
get_usb_path(f, cwd, current, provided_path) ==
    LET config == get_config(f, current) IN
    IF ~ config.some
    THEN [fs |-> f, err |-> "NotInitialized", usb_path |-> EmptyPath]
    ELSE IF Truthy(provided_path)
    THEN LET new == [config.v EXCEPT !.usb_path = abspath(cwd, provided_path.v)]
         IN  [fs |-> save_config(f, current, new), err |-> "", usb_path |-> new.usb_path]
    ELSE IF config.v.usb_path = EmptyPath
    THEN [fs |-> f, err |-> "NoExternalPathConfigured", usb_path |-> EmptyPath]
    ELSE [fs |-> f, err |-> "", usb_path |-> config.v.usb_path]

-----------------------------------------------------------------------------
(* The inputs the model draws from.                                        *)

\* The working directories the commands are run in: the project
\* directories /a and /w/b.
ProjectA == << Empty, << "a" >> >>
ProjectB == << Empty, << "w" >>, << "b" >> >>
ProjectDirs == { ProjectA, ProjectB }

UsbU == << Empty, << "u" >> >>
UsbV == << Empty, << "v" >> >>

\* The values of --path: absent, empty, /u and /v/ (an unnormalized /v).
PathArgs == { None, Some(EmptyPath), Some(UsbU), Some(Append(UsbV, Empty)) }

\* The external paths those resolve to.
UsbPaths == { UsbU, UsbV }

\* The values of --message.
Messages == { << "m" >>, << "n" >> }

\* The values uuid.uuid4() may return.
Uuids == { << "i", "d", "1" >>, << "i", "d", "2" >> }

\* File contents the user writes.
Bytes == { << 1 >>, << 2 >> }

NameF == << "f" >>
NameZ == << "z" >>
NameD == << "d" >>
NameH == << "h" >>
NameXSync == << "x", ".", "s", "y", "n", "c" >>
NameG == << "g" >>

\* The project trees /a may hold initially, as (segments below /a, node)
\* pairs: a file, a zero-byte file, an empty directory, a directory with a
\* file; and the same with a directory whose name contains ".sync".
PlainTree ==
    { << << NameF >>, File(<< 1 >>) >>, << << NameZ >>, File(<< >>) >>,
      << << NameD >>, Dir >>,
      << << NameH >>, Dir >>, << << NameH, NameG >>, File(<< 2 >>) >> }

SyncNamedTree ==
    PlainTree \cup { << << NameXSync >>, Dir >>,
                     << << NameXSync, NameG >>, File(<< 1 >>) >> }

InitialTrees == { PlainTree, SyncNamedTree }

\* The file system with the mount points, both project directories (empty,
\* not initialized) and `tree` placed under /a.
InitialFs(tree) ==
    LET base == { << >>, << << "a" >> >>, << << "w" >> >>,
                  << << "w" >>, << "b" >> >>, << << "u" >> >>, << << "v" >> >> }
        a == << << "a" >> >>
    IN  [k \in base |-> Dir]
        @@ [k \in { a \o t[1] : t \in tree } |-> (CHOOSE t \in tree : a \o t[1] = k)[2]]

-----------------------------------------------------------------------------
(* The commands.                                                           *)

\* datetime.now().strftime("%Y%m%d_%H%M%S"): every field is zero padded to
\* a fixed width; the model's clock fills one two digit field.
strftime(c) == << Digits[((c \div 10) % 10) + 1], Digits[(c % 10) + 1] >>

ZipSuffix == << ".", "z", "i", "p" >>

\* f"{config['project_name']}_{now}.zip"
snapshot_name(config, now) == config.project_name \o << "_" >> \o now \o ZipSuffix

local_snapshots_dir(current) == join(join(current, CONFIG_FOLDER), SNAPSHOTS_FOLDER)
usb_snapshots_dir(usb_path) == join(usb_path, SNAPSHOTS_FOLDER)
usb_history_path(usb_path) == join(join(usb_path, CONFIG_FOLDER), HISTORY_FILE)

\* What an invocation leaves for its caller: which command ran, the --path
\* it was given and how it ended, "ok" or the error it reported.
Invocation(cmd, path, outcome) == [cmd |-> cmd, path |-> path, outcome |-> outcome]

NoInvocation == Invocation("none", None, "none")

\* A faulty init that lacks the test of line 54 and writes a fresh config
\* whether or not the project is initialized.
init_fs_unguarded(f, current, id) ==
    save_config(makedirs(f, join(join(current, CONFIG_FOLDER), SNAPSHOTS_FOLDER)), current,
                [project_name |-> basename(current),
                 identifier |-> id,
                 usb_path |-> EmptyPath])

\* init: what it leaves of the file system, with `id` the uuid4 drawn.
init_fs(f, current, id) ==
    LET sync_path == join(current, CONFIG_FOLDER) IN
    IF exists(f, sync_path) THEN f
    ELSE save_config(makedirs(f, join(sync_path, SNAPSHOTS_FOLDER)), current,
                     [project_name |-> basename(current),
                      identifier |-> id,
                      usb_path |-> EmptyPath])

UsedUuids(f) ==
    { f[k].data.identifier :
        k \in { Resolve(config_path(d)) : d \in ProjectDirs } \cap DOMAIN f }

\* init in working directory cwd, with `id` the value uuid4 returns if it
\* is called: one no config holds yet.
init(cwd, id) ==
    LET current == cwd IN
    /\ exists(fs, join(current, CONFIG_FOLDER)) \/ id \notin UsedUuids(fs)
    /\ fs' = init_fs(fs, current, id)
    /\ last' = Invocation("init", None, IF exists(fs, join(current, CONFIG_FOLDER))
                                        THEN "AlreadyInitialized" ELSE "ok")
    /\ UNCHANGED <<clock, procs>>

\* backup, lines 73-80: the external path, the timestamp and the name.
backup_begin(f, clk, cwd, path) ==
    LET current == abspath(cwd, << Dot >>)
        r == get_usb_path(f, cwd, current, path)
        now == strftime(clk)
    IN  [fs |-> r.fs, err |-> r.err, current |-> current, usb_path |-> r.usb_path,
         now |-> now,
         snapshot_name |-> IF r.err = "" THEN snapshot_name(get_config(r.fs, current).v, now)
                           ELSE << >>]

\* backup, lines 82-99: the local archive.
backup_archive(f, current, name) ==
    LET g == makedirs(f, local_snapshots_dir(current))
    IN  write(g, join(local_snapshots_dir(current), name), createSnapshot(g, current))

\* backup, line 103
backup_mkdir_usb(f, usb_path) == makedirs(f, usb_snapshots_dir(usb_path))

\* backup, line 104: shutil.copy
backup_copy(f, current, usb_path, name) ==
    write(f, join(usb_snapshots_dir(usb_path), name),
          read(f, join(local_snapshots_dir(current), name)))

\* backup, line 108
backup_mkdir_history(f, usb_path) == makedirs(f, dirname(usb_history_path(usb_path)))

\* backup, lines 109-112: the history as loaded.
history_load(f, usb_path) ==
    IF exists(f, usb_history_path(usb_path)) THEN read(f, usb_history_path(usb_path))
    ELSE << >>

HistoryEntry(name, message, now) ==
    [snapshot |-> name, message |-> message, timestamp |-> now]

\* A faulty history write that keeps the new entry only.
history_save_latest_only(f, usb_path, history, name, message, now) ==
    write(f, usb_history_path(usb_path), << HistoryEntry(name, message, now) >>)

\* backup, lines 113-115: append in memory, rewrite the file.
history_save(f, usb_path, history, name, message, now) ==
    write(f, usb_history_path(usb_path), Append(history, HistoryEntry(name, message, now)))

\* The stages a backup passes after it resolved the external path; an
\* operating system error (disk full, device removed) ends it at any of
\* them, and nothing written before is undone.
BackupStages == << "resolved", "archived", "usb_dir", "copied", "done" >>

\* A faulty backup that records the history entry before it copies the
\* archive to the external path.
backup_fs_history_first(b, message, stage) ==
    LET f1 == b.fs
        f2 == backup_archive(f1, b.current, b.snapshot_name)
        f3 == backup_mkdir_history(f2, b.usb_path)
        f4 == history_save(f3, b.usb_path, history_load(f3, b.usb_path),
                           b.snapshot_name, message, b.now)
        f5 == backup_mkdir_usb(f4, b.usb_path)
        f6 == backup_copy(f5, b.current, b.usb_path, b.snapshot_name)
    IN  CASE stage = "resolved" -> f1
          [] stage = "archived" -> f2
          [] stage = "usb_dir" -> f3
          [] stage = "copied" -> f4
          [] stage = "done" -> f6

\* The file system a backup leaves when it gets as far as `stage`.
backup_fs(b, message, stage) ==
    LET f1 == b.fs
        f2 == backup_archive(f1, b.current, b.snapshot_name)
        f3 == backup_mkdir_usb(f2, b.usb_path)
        f4 == backup_copy(f3, b.current, b.usb_path, b.snapshot_name)
        f5 == backup_mkdir_history(f4, b.usb_path)
        f6 == history_save(f5, b.usb_path, history_load(f5, b.usb_path),
                           b.snapshot_name, message, b.now)
    IN  CASE stage = "resolved" -> f1
          [] stage = "archived" -> f2
          [] stage = "usb_dir" -> f3
          [] stage = "copied" -> f4
          [] stage = "done" -> f6

\* The history logs have room: the bound on the number of backups.
RECURSIVE HistoryLen(_, _)
HistoryLen(f, usbs) ==
    IF usbs = {} THEN 0
    ELSE LET u == CHOOSE x \in usbs : TRUE
         IN  Len(history_load(f, u)) + HistoryLen(f, usbs \ {u})

HistoryRoom(f) == HistoryLen(f, UsbPaths) < MaxHistory

backup(cwd, path, message, stage) ==
    LET b == backup_begin(fs, clock, cwd, path) IN
    /\ HistoryRoom(fs)
    /\ IF b.err # ""
       THEN /\ stage = "done"
            /\ fs' = b.fs
            /\ last' = Invocation("backup", path, b.err)
       ELSE /\ fs' = backup_fs(b, message, stage)
            /\ last' = Invocation("backup", path,
                                 IF stage = "done" THEN "ok" ELSE "OSError")
    /\ UNCHANGED <<clock, procs>>

\* sorted(names, reverse=True)
RECURSIVE sorted_reverse(_)
sorted_reverse(names) ==
    IF names = {} THEN << >>
    ELSE LET top == CHOOSE n \in names : \A m \in names : ~ StrLess(n, m)
         IN  << top >> \o sorted_reverse(names \ {top})

\* A faulty restore that reads the project's own snapshots directory where
\* restore reads the external one.
restore_run_local(f, cwd, path) ==
    LET current == abspath(cwd, << Dot >>)
        r == get_usb_path(f, cwd, current, path)
        snapshots_dir == local_snapshots_dir(current)
        snapshots == sorted_reverse(listdir(r.fs, snapshots_dir))
        latest == snapshots[1]
    IN  IF r.err # ""
        THEN [fs |-> r.fs, usb_path |-> EmptyPath, snapshot |-> << >>, outcome |-> r.err]
        ELSE IF ~ exists(r.fs, snapshots_dir) \/ snapshots = << >>
        THEN [fs |-> r.fs, usb_path |-> r.usb_path, snapshot |-> << >>,
              outcome |-> "NoSnapshotsFound"]
        ELSE [fs |-> extractall(r.fs, read(r.fs, join(snapshots_dir, latest)), current),
              usb_path |-> r.usb_path, snapshot |-> latest, outcome |-> "ok"]

\* restore, lines 124-137: the file system it leaves, the archive it chose
\* and how it ends.
restore_run(f, cwd, path) ==
    LET current == abspath(cwd, << Dot >>)
        r == get_usb_path(f, cwd, current, path)
        snapshots_dir == join(r.usb_path, SNAPSHOTS_FOLDER)
        snapshots == sorted_reverse(listdir(r.fs, snapshots_dir))
        latest == snapshots[1]
    IN  IF r.err # ""
        THEN [fs |-> r.fs, usb_path |-> EmptyPath, snapshot |-> << >>, outcome |-> r.err]
        ELSE IF ~ exists(r.fs, snapshots_dir)
        THEN [fs |-> r.fs, usb_path |-> r.usb_path, snapshot |-> << >>,
              outcome |-> "NoSnapshotsFound"]
        ELSE IF snapshots = << >>
        THEN [fs |-> r.fs, usb_path |-> r.usb_path, snapshot |-> << >>,
              outcome |-> "NoSnapshotsFound"]
        ELSE [fs |-> extractall(r.fs, read(r.fs, join(snapshots_dir, latest)), current),
              usb_path |-> r.usb_path, snapshot |-> latest, outcome |-> "ok"]

restore(cwd, path) ==
    LET r == restore_run(fs, cwd, path) IN
    /\ fs' = r.fs
    /\ last' = Invocation("restore", path, r.outcome)
    /\ UNCHANGED <<clock, procs>>

\* downgrade, lines 147-155
downgrade_run(f, cwd, path, snap) ==
    LET current == abspath(cwd, << Dot >>)
        r == get_usb_path(f, cwd, current, path)
        snap_path == join(join(r.usb_path, SNAPSHOTS_FOLDER), snap)
    IN  IF r.err # ""
        THEN [fs |-> r.fs, usb_path |-> EmptyPath, outcome |-> r.err]
        ELSE IF ~ exists(r.fs, snap_path)
        THEN [fs |-> r.fs, usb_path |-> r.usb_path, outcome |-> "SnapshotNotFound"]
        ELSE [fs |-> extractall(r.fs, read(r.fs, snap_path), current),
              usb_path |-> r.usb_path, outcome |-> "ok"]

downgrade(cwd, path, snap) ==
    LET r == downgrade_run(fs, cwd, path, snap) IN
    /\ fs' = r.fs
    /\ last' = Invocation("downgrade", path, r.outcome)
    /\ UNCHANGED <<clock, procs>>

\* The values of --snap: every name a backup of the projects `dirs` can
\* produce in the model, and one that none produces.
SnapNames(dirs) ==
    { snapshot_name([project_name |-> basename(d)], strftime(c)) :
          d \in dirs, c \in ClockStart..MaxClock }
    \cup { << "q" >> \o ZipSuffix }

SnapArgs == SnapNames({ ProjectA })

SnapArgsShared == SnapNames(ProjectDirs)

-----------------------------------------------------------------------------
(* The environment.                                                        *)

\* A second passes.
Tick ==
    /\ clock < MaxClock
    /\ clock' = clock + 1
    /\ UNCHANGED <<fs, last, procs>>

\* The user rewrites the file f of /a.
UserFile == join(ProjectA, NameF)

edit(bytes) ==
    /\ exists(fs, UserFile)
    /\ read(fs, UserFile) # bytes
    /\ fs' = write(fs, UserFile, bytes)
    /\ UNCHANGED <<clock, last, procs>>

-----------------------------------------------------------------------------
(* Concurrent backups: each of two invocations runs the steps of backup,   *)
(* and the steps of one interleave with the steps of the other.            *)

ProcIds == { "p", "q" }

IdleProc ==
    [pc |-> "idle", path |-> None, current |-> << >>, usb_path |-> << >>,
     snapshot_name |-> << >>, now |-> << >>, message |-> << >>, history |-> << >>]

\* Lines 73-99: resolve the external path, name and write the local archive.
b_start(i, cwd, path, message) ==
    LET b == backup_begin(fs, clock, cwd, path) IN
    /\ procs[i].pc = "idle"
    /\ IF b.err # ""
       THEN /\ fs' = b.fs
            /\ procs' = procs
            /\ last' = Invocation("backup", path, b.err)
       ELSE /\ fs' = backup_archive(b.fs, b.current, b.snapshot_name)
            /\ procs' = [procs EXCEPT ![i] =
                            [pc |-> "archived", path |-> path, current |-> b.current,
                             usb_path |-> b.usb_path, snapshot_name |-> b.snapshot_name,
                             now |-> b.now, message |-> message, history |-> << >>]]
            /\ last' = last
    /\ UNCHANGED clock

\* Lines 102-104: copy the archive to the external path.
b_copy(i) ==
    /\ procs[i].pc = "archived"
    /\ fs' = backup_copy(backup_mkdir_usb(fs, procs[i].usb_path), procs[i].current,
                         procs[i].usb_path, procs[i].snapshot_name)
    /\ procs' = [procs EXCEPT ![i].pc = "copied"]
    /\ UNCHANGED <<clock, last>>

\* Lines 107-112: load the history into memory.
b_load(i) ==
    /\ procs[i].pc = "copied"
    /\ fs' = backup_mkdir_history(fs, procs[i].usb_path)
    /\ procs' = [procs EXCEPT ![i].pc = "loaded",
                              ![i].history = history_load(fs', procs[i].usb_path)]
    /\ UNCHANGED <<clock, last>>

\* Lines 113-117: append in memory, rewrite the file, report.
b_save(i) ==
    /\ procs[i].pc = "loaded"
    /\ fs' = history_save(fs, procs[i].usb_path, procs[i].history,
                          procs[i].snapshot_name, procs[i].message, procs[i].now)
    /\ procs' = [procs EXCEPT ![i].pc = "done"]
    /\ last' = Invocation("backup", procs[i].path, "ok")
    /\ UNCHANGED clock

-----------------------------------------------------------------------------
(* The specifications.  Each explores every sequence of the four commands  *)
(* over the inputs it names.                                               *)

InitWith(trees) ==
    /\ \E tree \in trees : fs = InitialFs(tree)
    /\ clock = ClockStart
    /\ last = NoInvocation
    /\ procs = [i \in ProcIds |-> IdleProc]

FirstUuid == CHOOSE id \in Uuids : \A other \in Uuids : ~ StrLess(other, id)
FirstMessage == CHOOSE m \in Messages : \A other \in Messages : ~ StrLess(other, m)

\* Sequential invocations in one project, /a, with two external paths: one
\* command at a time, each run to its end or to the stage it fails at.
Init == InitWith({ SyncNamedTree })

Next ==
    \/ init(ProjectA, FirstUuid)
    \/ \E path \in PathArgs, i \in 1..Len(BackupStages) :
          backup(ProjectA, path, FirstMessage, BackupStages[i])
    \/ \E path \in PathArgs : restore(ProjectA, path)
    \/ \E path \in PathArgs, snap \in SnapArgs : downgrade(ProjectA, path, snap)
    \/ Tick

Spec == Init /\ [][Next]_vars

\* Sequential invocations in one project whose tree the user edits between
\* them, with one external path; every backup runs to its end.
PathArgsU == { None, Some(UsbU) }

InitTree == InitWith(InitialTrees)

NextTree ==
    \/ init(ProjectA, FirstUuid)
    \/ \E path \in PathArgsU :
          backup(ProjectA, path, FirstMessage, "done")
    \/ \E path \in PathArgsU : restore(ProjectA, path)
    \/ \E path \in PathArgsU, snap \in SnapArgs : downgrade(ProjectA, path, snap)
    \/ \E bytes \in Bytes : edit(bytes)
    \/ Tick

SpecTree == InitTree /\ [][NextTree]_vars

\* Sequential invocations in two projects, /a and /w/b, that share one
\* external path; every backup runs to its end.
NextShared ==
    \/ \E cwd \in ProjectDirs, id \in Uuids : init(cwd, id)
    \/ \E cwd \in ProjectDirs, path \in PathArgsU, message \in Messages :
          backup(cwd, path, message, "done")
    \/ \E cwd \in ProjectDirs, path \in PathArgsU : restore(cwd, path)
    \/ \E cwd \in ProjectDirs, path \in PathArgsU, snap \in SnapArgsShared :
          downgrade(cwd, path, snap)
    \/ Tick

SpecShared == Init /\ [][NextShared]_vars

\* Two backups of project /a that run concurrently.
NextConc ==
    \/ init(ProjectA, FirstUuid)
    \/ \E i \in ProcIds, path \in PathArgs, message \in Messages :
          b_start(i, ProjectA, path, message)
    \/ \E i \in ProcIds : b_copy(i)
    \/ \E i \in ProcIds : b_load(i)
    \/ \E i \in ProcIds : b_save(i)
    \/ Tick

SpecConc == Init /\ [][NextConc]_vars

-----------------------------------------------------------------------------
(* What the properties below read off a state.                             *)

\* The history log of an external path; no file reads as no entry.
History(f, usb_path) == history_load(f, usb_path)

\* The config of a project, where it has one.
Config(f, dir) == get_config(f, dir)

\* The external path a command run in cwd with --path `path` works on, when
\* `explicit` tells whether the --path value counts as given.
TargetOf(f, cwd, path, explicit) ==
    IF explicit THEN abspath(cwd, path.v) ELSE Config(f, cwd).v.usb_path

\* Path resolution succeeds: the project has a config, and a path is given
\* or remembered.
Resolves(f, cwd, path) ==
    /\ Config(f, cwd).some
    /\ Truthy(path) \/ Config(f, cwd).v.usb_path # EmptyPath

\* All that lies in or below directory dir, by path relative to dir.
Tree(f, dir) ==
    LET k == Resolve(dir)
        below == { q \in DOMAIN f : IsPrefix(k, q) /\ q # k }
    IN  [rel \in { SubSeq(q, Len(k) + 1, Len(q)) : q \in below } |-> f[k \o rel]]

\* A tree without what lies in or below its metadata directory.
WithoutMetadata(tree) ==
    [rel \in { r \in DOMAIN tree : r[1] # CONFIG_FOLDER } |-> tree[rel]]

\* A tree without its config file.
WithoutConfig(tree) ==
    [rel \in DOMAIN tree \ { << CONFIG_FOLDER, CONFIG_FILE >> } |-> tree[rel]]

\* The step is an invocation of command cmd: every invocation leaves its
\* command in `last`, and the clock is all that moves without one.
Ran(cmd) == last'.cmd = cmd /\ clock' = clock

\* The last invocation was of command cmd and ended with outcome.
Ended(cmd, outcome) == last.cmd = cmd /\ last.outcome = outcome

\* A file system that holds one empty directory, /t.
TargetDir == << Empty, << "t" >> >>
EmptyTarget == [k \in { << >>, << << "t" >> >> } |-> Dir]

-----------------------------------------------------------------------------
(* The initialization contract.                                            *)

\* What init leaves in a directory that was not initialized: .sync and
\* .sync/snapshots are directories, and the config holds the directory's
\* name, an identifier and an empty external path.
FreshlyInitialized(f, dir) ==
    /\ exists(f, join(dir, CONFIG_FOLDER))
    /\ f[Resolve(join(dir, CONFIG_FOLDER))] = Dir
    /\ f[Resolve(local_snapshots_dir(dir))] = Dir
    /\ listdir(f, local_snapshots_dir(dir)) = {}
    /\ Config(f, dir).some
    /\ Config(f, dir).v.project_name = dir[Len(dir)]
    /\ Config(f, dir).v.identifier # << >>
    /\ Config(f, dir).v.usb_path = EmptyPath

\* C8: init in a directory without .sync creates .sync and .sync/snapshots
\* and writes a config with the directory's name as project name, a fresh
\* identifier and an empty external path, and touches nothing else; init in
\* a directory that has .sync changes nothing at all.
C8_InitContract ==
    [][ Ran("init") /\ init(ProjectA, FirstUuid) =>
          IF exists(fs, join(ProjectA, CONFIG_FOLDER))
          THEN fs' = fs
          ELSE /\ FreshlyInitialized(fs', ProjectA)
               /\ WithoutMetadata(Tree(fs', ProjectA)) = Tree(fs, ProjectA)
               /\ \A k \in DOMAIN fs' : IsPrefix(Resolve(ProjectA), k) \/ (k \in DOMAIN fs /\ fs'[k] = fs[k]) ]_vars

\* C8 happens: init ran in a project whose config remembers an external
\* path and holds archives, and all of that is still there.
C8_Witness ==
    /\ Ended("init", "AlreadyInitialized")
    /\ Config(fs, ProjectA).some
    /\ Config(fs, ProjectA).v.usb_path = UsbU
    /\ listdir(fs, local_snapshots_dir(ProjectA)) # {}

-----------------------------------------------------------------------------
(* The order of a backup's writes.                                         *)

\* C9: a backup writes the local archive, then the external copy, then the
\* history entry: every history entry of an external path names an archive
\* that is in that path's snapshots directory, and every archive there is
\* in the project's snapshots directory as well, with the same content.
C9_HistoryNamesArchives ==
    \A u \in UsbPaths :
        /\ \A i \in 1..Len(History(fs, u)) :
              History(fs, u)[i].snapshot \in listdir(fs, usb_snapshots_dir(u))
        /\ \A n \in listdir(fs, usb_snapshots_dir(u)) :
              /\ n \in listdir(fs, local_snapshots_dir(ProjectA))
              /\ read(fs, join(usb_snapshots_dir(u), n))
                     = read(fs, join(local_snapshots_dir(ProjectA), n))

\* C9 happens: a backup was interrupted after the copy, and the external
\* path holds an archive that no history entry names.
C9_Witness ==
    /\ Ended("backup", "OSError")
    /\ \E u \in UsbPaths :
          \E n \in listdir(fs, usb_snapshots_dir(u)) :
              \A i \in 1..Len(History(fs, u)) : History(fs, u)[i].snapshot # n

-----------------------------------------------------------------------------
(* restore and downgrade when there is nothing to extract.                 *)

\* C7: a restore that resolves its external path fails with
\* NoSnapshotsFound and leaves every file of the project other than the
\* config as it was whenever the external snapshots directory is missing or
\* empty; otherwise it succeeds and the project holds the files of an
\* archive of that directory.
C7_RestoreNeedsSnapshot ==
    [][ Ran("restore") /\ Resolves(fs, ProjectA, last'.path) =>
            LET path == last'.path
                dir == usb_snapshots_dir(TargetOf(fs, ProjectA, path, Truthy(path)))
            IN
            IF ~ exists(fs, dir) \/ listdir(fs, dir) = {}
            THEN /\ last'.outcome = "NoSnapshotsFound"
                 /\ WithoutConfig(Tree(fs', ProjectA)) = WithoutConfig(Tree(fs, ProjectA))
            ELSE /\ last'.outcome = "ok"
                 /\ \E n \in listdir(fs, dir) :
                       \A e \in read(fs, join(dir, n)) :
                           /\ extract_target(e, ProjectA) \in DOMAIN fs'
                           /\ ~ is_dir(e) => fs'[extract_target(e, ProjectA)] = File(e.data) ]_vars

\* C7 happens: restore failed on an external snapshots directory that
\* exists and is empty, in a project that has local archives.
C7_Witness ==
    /\ Ended("restore", "NoSnapshotsFound")
    /\ Config(fs, ProjectA).some
    /\ \E u \in UsbPaths :
          /\ Config(fs, ProjectA).v.usb_path = u
          /\ exists(fs, usb_snapshots_dir(u))
          /\ listdir(fs, usb_snapshots_dir(u)) = {}
    /\ listdir(fs, local_snapshots_dir(ProjectA)) # {}

\* C4: a downgrade that resolves its external path and names a snapshot
\* that is not in the external snapshots directory fails with
\* SnapshotNotFound and leaves the whole project directory, the config
\* included, as it was, with or without --path.
C4_DowngradeMissingSnapUntouched ==
    [][ \A snap \in SnapArgs :
          /\ Ran("downgrade")
          /\ Resolves(fs, ProjectA, last'.path)
          /\ snap \notin listdir(fs, usb_snapshots_dir(
                          TargetOf(fs, ProjectA, last'.path, Truthy(last'.path))))
          /\ downgrade(ProjectA, last'.path, snap)
          => /\ last'.outcome = "SnapshotNotFound"
             /\ Tree(fs', ProjectA) = Tree(fs, ProjectA) ]_vars

-----------------------------------------------------------------------------
(* The history log.                                                        *)

\* C3: a successful backup makes the history of the external path it works
\* on (the given one, else the remembered one) the previous history with one
\* entry {snapshot, message, timestamp} appended, and leaves every other
\* history as it was; every other step (init, restore, downgrade, a backup
\* that fails) leaves every history as it was.
C3_HistoryAppendOnly ==
    [][ IF Ran("backup") /\ last'.outcome = "ok"
        THEN \A message \in Messages :
                backup(ProjectA, last'.path, message, "done") =>
                  \A u \in UsbPaths :
                      History(fs', u) =
                          IF u = TargetOf(fs, ProjectA, last'.path, Truthy(last'.path))
                          THEN Append(History(fs, u),
                                      [snapshot |-> snapshot_name(Config(fs, ProjectA).v,
                                                                  strftime(clock)),
                                       message |-> message,
                                       timestamp |-> strftime(clock)])
                          ELSE History(fs, u)
        ELSE \A u \in UsbPaths : History(fs', u) = History(fs, u) ]_vars

\* C3 happens: a backup given no usable --path succeeded on the remembered
\* external path, whose history now holds two entries, the earlier first.
C3_Witness ==
    /\ Ended("backup", "ok")
    /\ Config(fs, ProjectA).some
    /\ \E u \in UsbPaths :
          /\ Config(fs, ProjectA).v.usb_path = u
          /\ Len(History(fs, u)) = 2
          /\ StrLess(History(fs, u)[1].timestamp, History(fs, u)[2].timestamp)

-----------------------------------------------------------------------------
(* External path resolution.                                               *)

\* The command of this step worked on external path `target`: a backup
\* wrote nothing to any other external path and, when it succeeded, added
\* its archive and its history entry there; a restore or a downgrade failed
\* for want of a snapshot exactly when `target` lacks it.
WorkedOn(cwd, target, snap) ==
    /\ last'.outcome \notin { "NotInitialized", "NoExternalPathConfigured" }
    /\ Ran("backup") =>
          /\ \A u \in UsbPaths \ { target } : Tree(fs', u) = Tree(fs, u)
          /\ last'.outcome = "ok" =>
                /\ snapshot_name(Config(fs, cwd).v, strftime(clock))
                       \in listdir(fs', usb_snapshots_dir(target))
                /\ Len(History(fs', target)) = Len(History(fs, target)) + 1
    /\ Ran("restore") =>
          (last'.outcome = "NoSnapshotsFound"
              <=> listdir(fs, usb_snapshots_dir(target)) = {})
    /\ Ran("downgrade") =>
          (last'.outcome = "SnapshotNotFound"
              <=> snap \notin listdir(fs, usb_snapshots_dir(target)))

\* What path resolution does in a command run in cwd with --path `path`,
\* when `explicit` tells whether that --path value counts as given.
Resolution(cwd, path, explicit, snap) ==
    LET config == Config(fs, cwd) IN
    IF ~ config.some
    THEN last'.outcome = "NotInitialized" /\ fs' = fs
    ELSE IF explicit
    THEN /\ Config(fs', cwd) = Some([config.v EXCEPT !.usb_path = abspath(cwd, path.v)])
         /\ isabs(Config(fs', cwd).v.usb_path)
         /\ WorkedOn(cwd, abspath(cwd, path.v), snap)
    ELSE IF config.v.usb_path = EmptyPath
    THEN last'.outcome = "NoExternalPathConfigured" /\ fs' = fs
    ELSE /\ Config(fs', cwd) = config
         /\ WorkedOn(cwd, config.v.usb_path, snap)

\* The steps of backup, restore and downgrade resolve the external path as
\* Resolution tells, and no other step changes the remembered path.
ResolutionStep(Explicit(_)) ==
    /\ Ran("backup") \/ Ran("restore") =>
          Resolution(ProjectA, last'.path, Explicit(last'.path), << >>)
    /\ Ran("downgrade") =>
          \A snap \in SnapArgs :
              downgrade(ProjectA, last'.path, snap)
              => Resolution(ProjectA, last'.path, Explicit(last'.path), snap)
    /\ ~ (Ran("backup") \/ Ran("restore") \/ Ran("downgrade")) =>
          (Config(fs, ProjectA).some => Config(fs', ProjectA) = Config(fs, ProjectA))

\* A --path value counts as given when the option is present.
Present(path) == path.some

\* C5, as stated: an uninitialized project fails with NotInitialized and
\* changes nothing, whatever --path is; with --path present its absolute
\* form is written to the config and used; with no --path the remembered
\* path, which only a command with --path changes, is used; with no --path
\* and none remembered the command fails with NoExternalPathConfigured and
\* changes nothing.
C5_ResolutionAsStated == [][ResolutionStep(Present)]_vars

\* C5, amended: the same, where only a non-empty --path counts as given and
\* an empty --path value is treated as no --path.
C5_Resolution == [][ResolutionStep(Truthy)]_vars

\* C5 happens: a command with --path replaced a remembered external path
\* that had been worked on: the config remembers the one, and the other
\* holds archives of the project.
C5_Witness ==
    /\ Config(fs, ProjectA).some
    /\ Config(fs, ProjectA).v.usb_path = UsbV
    /\ last.cmd \in { "restore", "downgrade" }
    /\ last.outcome \in { "NoSnapshotsFound", "SnapshotNotFound" }
    /\ listdir(fs, usb_snapshots_dir(UsbU)) # {}

-----------------------------------------------------------------------------
(* Archives.                                                               *)

\* C1: the archive a successful backup writes, extracted into an empty
\* target, yields the project tree as it was (directories, files and their
\* contents, zero-byte files and empty directories included) without what
\* lies in or below the metadata directory .sync, and nothing else missing.
C1_RoundTrip ==
    [][ Ran("backup") /\ last'.outcome = "ok"
        /\ backup(ProjectA, last'.path, FirstMessage, "done") =>
          LET name == snapshot_name(Config(fs, ProjectA).v, strftime(clock))
              archive == read(fs', join(local_snapshots_dir(ProjectA), name))
          IN  Tree(extractall(EmptyTarget, archive, TargetDir), TargetDir)
                  = WithoutMetadata(Tree(fs, ProjectA)) ]_vars

\* The archives of the project and of the external paths, by path.
Snapshots(f) ==
    LET dirs == { Resolve(local_snapshots_dir(ProjectA)) }
                    \cup { Resolve(usb_snapshots_dir(u)) : u \in UsbPaths }
        keys == { k \in DOMAIN f : \E d \in dirs : IsPrefix(d, k) /\ Len(k) = Len(d) + 1 }
    IN  [k \in keys |-> f[k]]

\* C6: no step changes or removes an archive that is stored in the
\* project's or an external path's snapshots directory.
C6_SnapshotsImmutable ==
    [][ \A k \in DOMAIN Snapshots(fs) :
            k \in DOMAIN Snapshots(fs') /\ Snapshots(fs')[k] = Snapshots(fs)[k] ]_vars

-----------------------------------------------------------------------------
(* Which archive restore extracts.                                         *)

\* The timestamps of a history are pairwise distinct.
DistinctTimestamps(history) ==
    \A i, j \in 1..Len(history) :
        history[i].timestamp = history[j].timestamp => i = j

\* C2: when the backups into an external path had distinct timestamps, a
\* restore from that path extracts the archive whose name is the
\* lexicographically last of the path's snapshots directory, and that is
\* the archive of the most recent backup, the one the last history entry
\* names.
C2_RestoreLatest ==
    [][ \A cwd \in ProjectDirs :
          /\ Ran("restore") /\ last'.outcome = "ok"
          /\ restore(cwd, last'.path)
          =>
          LET target == TargetOf(fs, cwd, last'.path, Truthy(last'.path))
              dir == usb_snapshots_dir(target)
              history == History(fs, target)
          IN  history # << >> /\ DistinctTimestamps(history) =>
                \E n \in listdir(fs, dir) :
                    /\ \A m \in listdir(fs, dir) : ~ StrLess(n, m)
                    /\ n = history[Len(history)].snapshot
                    /\ fs' = extractall(fs', read(fs, join(dir, n)), cwd) ]_vars

-----------------------------------------------------------------------------
(* Concurrent backups.                                                     *)

\* The history entry a backup process writes.
EntryOf(i) == HistoryEntry(procs[i].snapshot_name, procs[i].message, procs[i].now)

\* Element e occurs in sequence seq.
Occurs(e, seq) == \E n \in 1..Len(seq) : seq[n] = e

\* C10: concurrent backups lose history entries in one way only.  The entry
\* of a backup that completed is in the history of its external path,
\* unless another backup on that path, which had loaded the history before
\* the entry was written, rewrote the file after it: then the history is
\* what that one loaded plus that one's entry.
C10_LostEntryOnlyByOverwrite ==
    \A i \in ProcIds :
        procs[i].pc = "done" =>
            \/ Occurs(EntryOf(i), History(fs, procs[i].usb_path))
            \/ \E j \in ProcIds \ {i} :
                  /\ procs[j].pc = "done"
                  /\ procs[j].usb_path = procs[i].usb_path
                  /\ ~ Occurs(EntryOf(i), procs[j].history)
                  /\ History(fs, procs[j].usb_path)
                         = Append(procs[j].history, EntryOf(j))

\* C10 happens: both backups completed on one external path, with entries
\* that differ, and the history holds one entry.
C10_Witness ==
    /\ \A i \in ProcIds : procs[i].pc = "done"
    /\ procs["p"].usb_path = procs["q"].usb_path
    /\ EntryOf("p") # EntryOf("q")
    /\ Len(History(fs, procs["p"].usb_path)) = 1
    /\ Ended("backup", "ok")

====
